---- MODULE Spec2Model ----
(***************************************************************************)
(* cloudantimport: the streaming batch-dispatch pipeline of                *)
(* importer.CloudantImport (New / Run / writeBufferWorker /                *)
(* statsCollector) together with importer.Stats (NewStats / Save /         *)
(* Summary) and main.main.                                                 *)
(*                                                                         *)
(* One producer (Run, on the calling goroutine), Concurrency workers       *)
(* (writeBufferWorker) and one collector (statsCollector) communicate over *)
(* jobsChan (buffered, capacity Concurrency) and the unbuffered            *)
(* resultsChan and errorsChan.                                             *)
(***************************************************************************)
EXTENDS Integers, Sequences, FiniteSets, TLC

(***************************************************************************)
(* Bounds of the model.                                                    *)
(***************************************************************************)
\* const bufferSize = 500 in the source; the model runs with a small buffer.
bufferSize == 2
\* The longest input stream explored, in newline-terminated lines.
MaxLines == 5
\* The largest --concurrency explored (the source admits 1..50).
MaxConcurrency == 2
\* The longest list of outcomes folded by Stats.Save in SaveSpec.
MaxOutcomes == 2

(***************************************************************************)
(* Input text.  A line is a sequence of tokens: "obj" is the text of one   *)
(* JSON object, "null" the JSON literal null, "junk" any other text        *)
(* (malformed JSON, or a JSON value that is neither an object nor null),   *)
(* "\r" and "\n" the two line-ending characters.                           *)
(***************************************************************************)
Bodies == {<<>>, <<"obj">>, <<"null">>, <<"junk">>}
Returns == {<<>>, <<"\r">>}
\* What ReadString('\n') returns with a nil error: text up to and including "\n".
Lines == {b \o r \o <<"\n">> : b \in Bodies, r \in Returns}
\* What ReadString('\n') returns together with io.EOF: the unterminated rest.
Tails == {b \o r : b \in Bodies, r \in Returns}

\* strings.TrimSuffix
TrimSuffix(s, c) ==
    IF Len(s) > 0 /\ s[Len(s)] = c THEN SubSeq(s, 1, Len(s) - 1) ELSE s

\* encoding/json skips white space around the value ("\r" is white space).
RECURSIVE SkipSpace(_)
SkipSpace(s) ==
    IF s = <<>> THEN s
    ELSE IF Head(s) = "\r" THEN SkipSpace(Tail(s))
    ELSE IF s[Len(s)] = "\r" THEN SkipSpace(SubSeq(s, 1, Len(s) - 1))
    ELSE s

\* A Unmarshal that accepts every non-empty text.
UnmarshalAcceptsAll(text) == TRUE

\* json.Unmarshal([]byte(text), &dataMap) with dataMap a map[string]interface{}:
\* TRUE when it returns a nil error.  An object fills the map, the literal null
\* leaves the map nil without an error, everything else is an error.
Unmarshal(text) == SkipSpace(text) \in {<<"obj">>, <<"null">>}

(***************************************************************************)
(* Stats (importer/stats.go).  A Go map is a function on the keys it       *)
(* holds; m[k]++ on a missing key inserts it with the value 1.             *)
(***************************************************************************)
\* response.StatusCode: the codes Stats.Save is explored with (SaveSpec), and the
\* code a successful PostBulkDocs reports in the pipeline (Spec).
StatusCodeSet == {201, 202}
ResponseCodes == {201}
ErrorSet == {"conflict", "forbidden"}
\* DocumentResult.Error: "ok" stands for a nil Error.
DocResults == {"ok"} \cup ErrorSet
\* Every list of n DocumentResults.
ResultsOf(n) == [1..n -> DocResults]

NewStats ==
    [StatusCodes |-> <<>>, ErrorMessages |-> <<>>, DocsWritten |-> 0, BatchesWritten |-> 0]

Incr(m, k) ==
    IF k \in DOMAIN m THEN [m EXCEPT ![k] = @ + 1] ELSE m @@ (k :> 1)

\* The loop over statsDataPoint.result: the error histogram and the two counts.
RECURSIVE SaveLoop(_, _)
SaveLoop(result, acc) ==
    IF result = <<>> THEN acc
    ELSE SaveLoop(Tail(result),
            IF Head(result) # "ok"
            THEN [acc EXCEPT !.errs = Incr(@, Head(result)), !.failureCount = @ + 1]
            ELSE [acc EXCEPT !.successCount = @ + 1])

SaveCounts(s, dp) ==
    SaveLoop(dp.result, [errs |-> s.ErrorMessages, successCount |-> 0, failureCount |-> 0])

\* A Save that adds only the successful documents to DocsWritten.
SaveStatsSuccessOnly(s, dp) ==
    [StatusCodes    |-> Incr(s.StatusCodes, dp.statusCode),
     ErrorMessages  |-> SaveCounts(s, dp).errs,
     DocsWritten    |-> s.DocsWritten + SaveCounts(s, dp).successCount,
     BatchesWritten |-> s.BatchesWritten + 1]

\* A Save that keeps only the latest status code in the histogram.
SaveStatsLastCode(s, dp) ==
    [StatusCodes    |-> (dp.statusCode :> (IF s.StatusCodes = <<>> THEN 1 ELSE s.BatchesWritten + 1)),
     ErrorMessages  |-> SaveCounts(s, dp).errs,
     DocsWritten    |-> s.DocsWritten + Len(dp.result),
     BatchesWritten |-> s.BatchesWritten + 1]

\* Stats.Save, the part under the mutex: the new Stats.
SaveStats(s, dp) ==
    [StatusCodes    |-> Incr(s.StatusCodes, dp.statusCode),
     ErrorMessages  |-> SaveCounts(s, dp).errs,
     DocsWritten    |-> s.DocsWritten + Len(dp.result),
     BatchesWritten |-> s.BatchesWritten + 1]

\* Stats.Save, the part after the mutex: NewLogLine(...).Output().
\* The timestamp and the latency are measurements and are not modelled.
NewLogLine(dp) ==
    [kind |-> "log", statusCode |-> dp.statusCode,
     DocsSuccess |-> SaveCounts(NewStats, dp).successCount,
     DocsFailed  |-> SaveCounts(NewStats, dp).failureCount]

\* A Save that prints a log line only for a batch with a rejected document.
SaveOutputFailuresOnly(out, dp) ==
    IF NewLogLine(dp).DocsFailed > 0 THEN Append(out, NewLogLine(dp)) ELSE out

\* ll := NewLogLine(...); ll.Output(): standard output after Save.
SaveOutput(out, dp) == Append(out, NewLogLine(dp))

\* Stats.Summary: the JSON of the four fields.
Summary(s) ==
    [kind |-> "summary", statusCodes |-> s.StatusCodes, errors |-> s.ErrorMessages,
     docs |-> s.DocsWritten, batches |-> s.BatchesWritten]

(***************************************************************************)
(* State.                                                                  *)
(***************************************************************************)
VARIABLES
    Concurrency,   \* appConfig.Concurrency, validated by NewAppConfig
    pc,            \* where Run (and then main) stands
    exit,          \* "none" while the process runs, then "ok" or "panic"
    linesRead,     \* lines ReadString has returned so far
    buffer,        \* ci.buffer: bufferSize slots, reused batch after batch
    bufferLen,     \* ci.bufferLen
    clone,         \* the slice Run is sending on jobsChan
    jobsChan,      \* the slices waiting in ci.jobsChan
    jobsClosed,    \* close(ci.jobsChan) has run
    resultsClosed, \* close(ci.resultsChan) has run
    errorsClosed,  \* close(ci.errorsChan) has run
    wpc,           \* per started worker: where writeBufferWorker stands
    job,           \* per worker: the slice it received
    statsDataPoint,\* per worker: the StatsDataPoint it is sending
    wgWorker,      \* ci.wgWorker's counter
    wgCollector,   \* ci.wgCollector's counter
    cpc,           \* where statsCollector stands
    r,             \* the StatsDataPoint statsCollector received
    stats,         \* ci.stats
    output,        \* what has been printed on standard output, in order
    \* history of the run, read by the properties only
    checkFailed,   \* checkTargetDatabase returned an error
    records,       \* valid records the input has held so far
    made,          \* documents Run has put in the buffer so far
    enqueued,      \* the contents of every slice sent on jobsChan, in order
    writeErrors,   \* NewBulkDocs / PostBulkDocs calls that returned an error
    returned,      \* per-document results returned by successful PostBulkDocs calls
    aggregated,    \* per batch, how many of its StatsDataPoints the collector received
    dispatched,    \* per batch, how many times a worker received it from jobsChan
    errorReceived, \* statsCollector received from errorsChan
    \* SaveSpec only
    todo,          \* outcomes still to be saved into stats
    todoAlt,       \* the same outcomes in another order, to be saved into statsAlt
    statsAlt,      \* a second Stats
    \* ConfigSpec only
    flags,         \* the command line after flag.Parse(): dbname and concurrency
    newErr         \* the error New returned, "" for none

runVars == <<pc, exit, linesRead, buffer, bufferLen, clone, checkFailed, records, made, enqueued>>
chanVars == <<jobsChan, jobsClosed, resultsClosed, errorsClosed>>
workerVars == <<wpc, job, statsDataPoint, wgWorker, writeErrors, returned, dispatched>>
collectorVars == <<wgCollector, cpc, r, stats, output, aggregated, errorReceived>>
saveVars == <<todo, todoAlt, statsAlt>>
configVars == <<flags, newErr>>
vars == <<Concurrency, runVars, chanVars, workerVars, collectorVars, saveVars, configVars>>

NoSlice == [id |-> 0, alias |-> FALSE, len |-> 0, data |-> <<>>]
NoDataPoint == [id |-> 0, statusCode |-> 0, result |-> <<>>]

\* The documents a slice shows to whoever reads it now: a slice of ci.buffer
\* shares the buffer's storage, a clone has its own.
Contents(s) == IF s.alias THEN SubSeq(buffer, 1, s.len) ELSE s.data

\* A full-batch handoff that sends the slice of ci.buffer without copying it.
CloneOfSharing(id, buf, n) == [id |-> id, alias |-> TRUE, len |-> n, data |-> <<>>]

\* clone := make([]cloudantv1.Document, n); copy(clone, ci.buffer[:n])
CloneOf(id, buf, n) == [id |-> id, alias |-> FALSE, len |-> n, data |-> SubSeq(buf, 1, n)]

\* ci.buffer[:n], the slice of the working buffer itself.
SliceOf(id, buf, n) == [id |-> id, alias |-> TRUE, len |-> n, data |-> <<>>]

\* for i := 0; i < ci.appConfig.Concurrency; i++ with one worker too many.
NumWorkersOneMore(c) == c + 1

\* The number of go ci.writeBufferWorker() statements Run executes.
NumWorkers(c) == c

\* A jobs channel with room for one slice more than the concurrency.
JobsCapOneMore(c) == c + 1

\* make(chan []cloudantv1.Document, appConfig.Concurrency)
JobsCap(c) == c

Init ==
    /\ Concurrency \in 1..MaxConcurrency
    /\ pc = "check"
    /\ exit = "none"
    /\ linesRead = 0
    /\ buffer = [i \in 1..bufferSize |-> 0]
    /\ bufferLen = 0
    /\ clone = NoSlice
    /\ jobsChan = <<>>
    /\ jobsClosed = FALSE
    /\ resultsClosed = FALSE
    /\ errorsClosed = FALSE
    /\ wpc = <<>>
    /\ job = <<>>
    /\ statsDataPoint = <<>>
    /\ wgWorker = 0
    /\ wgCollector = 0
    /\ cpc = "notStarted"
    /\ r = NoDataPoint
    /\ stats = NewStats
    /\ output = <<>>
    /\ checkFailed = FALSE
    /\ records = 0
    /\ made = 0
    /\ enqueued = <<>>
    /\ writeErrors = 0
    /\ returned = 0
    /\ aggregated = <<>>
    /\ dispatched = <<>>
    /\ errorReceived = FALSE
    /\ todo = <<>>
    /\ todoAlt = <<>>
    /\ statsAlt = NewStats
    /\ flags = [dbname |-> "mydb", concurrency |-> Concurrency]
    /\ newErr = ""

(***************************************************************************)
(* Run, up to the read loop.                                               *)
(***************************************************************************)
\* A pre-flight check whose error is ignored.
AfterCheckIgnoringError(err) == "startWorkers"

\* err := ci.checkTargetDatabase(); if err != nil { return errors.New(...) }
AfterCheck(err) == IF err THEN "returnedErr" ELSE "startWorkers"

CheckTargetDatabase ==
    /\ exit = "none" /\ pc = "check"
    /\ \E err \in BOOLEAN : pc' = AfterCheck(err) /\ checkFailed' = err
    /\ UNCHANGED <<Concurrency, exit, linesRead, buffer, bufferLen, clone, records, made,
                   enqueued, chanVars, workerVars, collectorVars, saveVars, configVars>>

\* The worker pool and the collector are started.
StartWorkers ==
    /\ exit = "none" /\ pc = "startWorkers"
    /\ wpc' = [w \in 1..NumWorkers(Concurrency) |-> "recv"]
    /\ job' = [w \in 1..NumWorkers(Concurrency) |-> NoSlice]
    /\ statsDataPoint' = [w \in 1..NumWorkers(Concurrency) |-> NoDataPoint]
    /\ wgWorker' = NumWorkers(Concurrency)
    /\ wgCollector' = 1
    /\ cpc' = "select"
    /\ pc' = "read"
    /\ UNCHANGED <<Concurrency, checkFailed, exit, linesRead, buffer, bufferLen, clone, records, made,
                   enqueued, chanVars, writeErrors, returned, r, stats, output, aggregated,
                   saveVars, dispatched, errorReceived, configVars>>

(***************************************************************************)
(* Run, the read loop.                                                     *)
(***************************************************************************)
\* History: a piece of input is a valid record when, line ending aside, it is the
\* text of one value that decodes into a document.
IsLineEnding(c) == c \in {"\r", "\n"}
IsRecord(raw) == SelectSeq(raw, LAMBDA c : ~IsLineEnding(c)) \in {<<"obj">>, <<"null">>}

\* text = strings.TrimSuffix(text, "\n"); text = strings.TrimSuffix(text, "\r")
StripLineBreak(text) == TrimSuffix(TrimSuffix(text, "\n"), "\r")

\* if len(text) > 0 { err := json.Unmarshal(...); if err != nil { continue } ... }:
\* TRUE when the line reaches "add it to the buffer".
MakesDoc(text) == Len(text) > 0 /\ Unmarshal(text)

\* A full-buffer test that never fires on the exact size.
BufferFullLate(n) == n > bufferSize

\* if ci.bufferLen == bufferSize
BufferFull(n) == n = bufferSize

\* A final flush that does not look at the buffer length.
FlushAlways(n) == TRUE

\* if ci.bufferLen > 0 (the flush at the end of the stream)
FlushNeeded(n) == n > 0

\* One iteration of the loop on a line that ReadString returned with a nil error.
\* A document is the ordinal of its record among the documents made.
ReadLine(line) ==
    /\ exit = "none" /\ pc = "read"
    /\ linesRead < MaxLines
    /\ linesRead' = linesRead + 1
    /\ LET text == StripLineBreak(line) IN
         /\ records' = IF IsRecord(line) THEN records + 1 ELSE records
         /\ IF MakesDoc(text)
            THEN /\ made' = made + 1
                 /\ buffer' = [buffer EXCEPT ![bufferLen + 1] = made + 1]
                 /\ bufferLen' = bufferLen + 1
                 /\ IF BufferFull(bufferLen')
                    THEN /\ clone' = CloneOf(Len(enqueued) + 1, buffer', bufferLen')
                         /\ pc' = "sendClone"
                    ELSE UNCHANGED <<clone, pc>>
            ELSE UNCHANGED <<made, buffer, bufferLen, clone, pc>>
    /\ UNCHANGED <<Concurrency, checkFailed, exit, enqueued, chanVars, workerVars, collectorVars, saveVars, configVars>>

\* ci.jobsChan <- clone; ci.bufferLen = 0.  The send blocks while the channel is full.
SendClone ==
    /\ exit = "none" /\ pc = "sendClone"
    /\ Len(jobsChan) < JobsCap(Concurrency)
    /\ jobsChan' = Append(jobsChan, clone)
    /\ enqueued' = Append(enqueued, Contents(clone))
    /\ clone' = NoSlice
    /\ bufferLen' = 0
    /\ pc' = "read"
    /\ UNCHANGED <<Concurrency, checkFailed, exit, linesRead, buffer, records, made, jobsClosed,
                   resultsClosed, errorsClosed, workerVars, collectorVars, saveVars, configVars>>

\* ReadString returns an error (io.EOF) with the unterminated rest of the input:
\* the rest is not looked at and the buffer is flushed if it holds anything.
ReadEOF(rest) ==
    /\ exit = "none" /\ pc = "read"
    /\ records' = IF IsRecord(rest) THEN records + 1 ELSE records
    /\ IF FlushNeeded(bufferLen)
       THEN /\ clone' = SliceOf(Len(enqueued) + 1, buffer, bufferLen)
            /\ pc' = "sendLast"
       ELSE /\ pc' = "closeJobs"
            /\ UNCHANGED clone
    /\ UNCHANGED <<Concurrency, checkFailed, exit, linesRead, buffer, bufferLen, made, enqueued,
                   chanVars, workerVars, collectorVars, saveVars, configVars>>

\* ci.jobsChan <- ci.buffer[:ci.bufferLen]
SendLast ==
    /\ exit = "none" /\ pc = "sendLast"
    /\ Len(jobsChan) < JobsCap(Concurrency)
    /\ jobsChan' = Append(jobsChan, clone)
    /\ enqueued' = Append(enqueued, Contents(clone))
    /\ clone' = NoSlice
    /\ pc' = "closeJobs"
    /\ UNCHANGED <<Concurrency, checkFailed, exit, linesRead, buffer, bufferLen, records, made,
                   jobsClosed, resultsClosed, errorsClosed, workerVars, collectorVars,
                   saveVars, configVars>>

\* close(ci.jobsChan); break
CloseJobs ==
    /\ exit = "none" /\ pc = "closeJobs"
    /\ jobsClosed' = TRUE
    /\ pc' = "waitWorkers"
    /\ UNCHANGED <<Concurrency, checkFailed, exit, linesRead, buffer, bufferLen, clone, records, made,
                   enqueued, jobsChan, resultsClosed, errorsClosed, workerVars,
                   collectorVars, saveVars, configVars>>

(***************************************************************************)
(* Run, the shutdown.                                                      *)
(***************************************************************************)
\* A Wait that returns at once.
WaitReturnsAtOnce(counter) == TRUE

\* sync.WaitGroup.Wait returns when the counter is zero.
WaitReturns(counter) == counter = 0

\* ci.wgWorker.Wait()
WaitWorkers ==
    /\ exit = "none" /\ pc = "waitWorkers"
    /\ WaitReturns(wgWorker)
    /\ pc' = "closeResults"
    /\ UNCHANGED <<Concurrency, checkFailed, exit, linesRead, buffer, bufferLen, clone, records, made,
                   enqueued, chanVars, workerVars, collectorVars, saveVars, configVars>>

\* close(ci.resultsChan)
CloseResults ==
    /\ exit = "none" /\ pc = "closeResults"
    /\ resultsClosed' = TRUE
    /\ pc' = "closeErrors"
    /\ UNCHANGED <<Concurrency, checkFailed, exit, linesRead, buffer, bufferLen, clone, records, made,
                   enqueued, jobsChan, jobsClosed, errorsClosed, workerVars, collectorVars,
                   saveVars, configVars>>

\* close(ci.errorsChan)
CloseErrors ==
    /\ exit = "none" /\ pc = "closeErrors"
    /\ errorsClosed' = TRUE
    /\ pc' = "waitCollector"
    /\ UNCHANGED <<Concurrency, checkFailed, exit, linesRead, buffer, bufferLen, clone, records, made,
                   enqueued, jobsChan, jobsClosed, resultsClosed, workerVars,
                   collectorVars, saveVars, configVars>>

\* ci.wgCollector.Wait()
WaitCollector ==
    /\ exit = "none" /\ pc = "waitCollector"
    /\ WaitReturns(wgCollector)
    /\ pc' = "summary"
    /\ UNCHANGED <<Concurrency, checkFailed, exit, linesRead, buffer, bufferLen, clone, records, made,
                   enqueued, chanVars, workerVars, collectorVars, saveVars, configVars>>

\* ci.stats.Summary(); return nil
PrintSummary ==
    /\ exit = "none" /\ pc = "summary"
    /\ output' = Append(output, Summary(stats))
    /\ pc' = "returnedNil"
    /\ UNCHANGED <<Concurrency, checkFailed, exit, linesRead, buffer, bufferLen, clone, records, made,
                   enqueued, chanVars, workerVars, wgCollector, cpc, r, stats, aggregated,
                   saveVars, errorReceived, configVars>>

\* main: err = cloudantImport.Run(); if err != nil { panic(err) }
MainExit ==
    /\ exit = "none" /\ pc \in {"returnedNil", "returnedErr"}
    /\ exit' = IF pc = "returnedErr" THEN "panic" ELSE "ok"
    /\ UNCHANGED <<Concurrency, checkFailed, pc, linesRead, buffer, bufferLen, clone, records, made,
                   enqueued, chanVars, workerVars, collectorVars, saveVars, configVars>>

(***************************************************************************)
(* writeBufferWorker.                                                      *)
(***************************************************************************)
Workers == DOMAIN wpc

\* The result lists PostBulkDocs returns for n documents in a run: one
\* DocumentResult each.  Stats.Save reads a list only through its loop, so the
\* run explores one list per multiset of results (accepted documents first);
\* SaveSpec explores the lists in every order.
Rank(e) == IF e = "ok" THEN 0 ELSE IF e = "conflict" THEN 1 ELSE 2
PostResults(n) ==
    {result \in ResultsOf(n) : \A i \in 1..(n - 1) : Rank(result[i]) <= Rank(result[i + 1])}

\* An error branch that reports the error and returns, without telling the collector.
OnWriteErrorReturn == "done"

\* if err != nil { ci.errorsChan <- err; return }: the worker goes to the send.
OnWriteError == "sendErr"

\* A receive that leaves the slice in the channel.
AfterRecvKeep(q) == q

\* What a receive leaves in the channel: the slice received is taken out.
AfterRecv(q) == Tail(q)

\* for job := range ci.jobsChan: a slice is received.
WorkerRecv(w) ==
    /\ exit = "none" /\ wpc[w] = "recv"
    /\ jobsChan # <<>>
    /\ job' = [job EXCEPT ![w] = Head(jobsChan)]
    /\ jobsChan' = AfterRecv(jobsChan)
    /\ dispatched' = Incr(dispatched, Head(jobsChan).id)
    /\ wpc' = [wpc EXCEPT ![w] = "write"]
    /\ UNCHANGED <<Concurrency, runVars, jobsClosed, resultsClosed, errorsClosed,
                   statsDataPoint, wgWorker, writeErrors, returned, collectorVars, saveVars, configVars>>

\* for job := range ci.jobsChan: the channel is closed and empty; defer wgWorker.Done().
WorkerExit(w) ==
    /\ exit = "none" /\ wpc[w] = "recv"
    /\ jobsChan = <<>> /\ jobsClosed
    /\ wpc' = [wpc EXCEPT ![w] = "done"]
    /\ wgWorker' = wgWorker - 1
    /\ UNCHANGED <<Concurrency, runVars, chanVars, job, statsDataPoint, writeErrors,
                   returned, collectorVars, saveVars, dispatched, configVars>>

\* NewBulkDocs or PostBulkDocs returns an error.
WorkerWriteFails(w) ==
    /\ exit = "none" /\ wpc[w] = "write"
    /\ writeErrors' = writeErrors + 1
    /\ wpc' = [wpc EXCEPT ![w] = OnWriteError]
    /\ wgWorker' = IF OnWriteError = "done" THEN wgWorker - 1 ELSE wgWorker
    /\ job' = [job EXCEPT ![w] = NoSlice]
    /\ UNCHANGED <<Concurrency, runVars, chanVars, statsDataPoint, returned,
                   collectorVars, saveVars, dispatched, configVars>>

\* A worker that saves the outcome of its write into ci.stats itself.
WorkerSaves(s, dp) == SaveStats(s, dp)

\* ci.stats as the worker leaves it: the worker only builds the StatsDataPoint
\* it is going to send on resultsChan.
WorkerStats(s, dp) == s

\* PostBulkDocs returns a response and a result list.
WorkerWriteReturns(w) ==
    /\ exit = "none" /\ wpc[w] = "write"
    /\ \E code \in ResponseCodes, result \in PostResults(job[w].len) :
         /\ statsDataPoint' = [statsDataPoint EXCEPT ![w] =
                [id |-> job[w].id, statusCode |-> code, result |-> result]]
         /\ returned' = returned + Len(result)
    /\ stats' = WorkerStats(stats, statsDataPoint'[w])
    /\ wpc' = [wpc EXCEPT ![w] = "sendResult"]
    /\ job' = [job EXCEPT ![w] = NoSlice]
    /\ UNCHANGED <<Concurrency, runVars, chanVars, wgWorker, writeErrors, dispatched,
                   wgCollector, cpc, r, output, aggregated, errorReceived, saveVars,
                   configVars>>

(***************************************************************************)
(* statsCollector.  resultsChan and errorsChan are unbuffered: a send and  *)
(* its receive are one step.                                               *)
(***************************************************************************)
\* case r, ok := <-ci.resultsChan with ok true; the worker loops.
CollectorRecvResult(w) ==
    /\ exit = "none" /\ cpc = "select"
    /\ w \in Workers /\ wpc[w] = "sendResult"
    /\ r' = statsDataPoint[w]
    /\ aggregated' = Incr(aggregated, statsDataPoint[w].id)
    /\ cpc' = "save"
    /\ wpc' = [wpc EXCEPT ![w] = "recv"]
    /\ statsDataPoint' = [statsDataPoint EXCEPT ![w] = NoDataPoint]
    /\ UNCHANGED <<Concurrency, runVars, chanVars, job, wgWorker, writeErrors, returned,
                   wgCollector, stats, output, saveVars, dispatched, errorReceived, configVars>>

\* ci.stats.Save(&r)
CollectorSave ==
    /\ exit = "none" /\ cpc = "save"
    /\ stats' = SaveStats(stats, r)
    /\ output' = SaveOutput(output, r)
    /\ r' = NoDataPoint
    /\ cpc' = "select"
    /\ UNCHANGED <<Concurrency, runVars, chanVars, workerVars, wgCollector, aggregated,
                   saveVars, errorReceived, configVars>>

\* An error branch that drops the error and goes round the loop again.
OnErrorContinue == "none"

\* panic(fmt.Sprintf("Error writing to Cloudant: %v", err)): the panic is not
\* recovered, so it ends the process, every goroutine with it.
OnError == "panic"

\* case err, ok := <-ci.errorsChan with ok true.  The receive and the panic
\* that follows it are one step.
CollectorRecvError(w) ==
    /\ exit = "none" /\ cpc = "select"
    /\ w \in Workers /\ wpc[w] = "sendErr"
    /\ errorReceived' = TRUE
    /\ exit' = OnError
    /\ wpc' = IF OnError = "panic" THEN wpc ELSE [wpc EXCEPT ![w] = "done"]
    /\ wgWorker' = IF OnError = "panic" THEN wgWorker ELSE wgWorker - 1
    /\ UNCHANGED <<Concurrency, checkFailed, pc, linesRead, buffer, bufferLen, clone, records, made,
                   enqueued, chanVars, job, statsDataPoint, writeErrors, returned, dispatched,
                   wgCollector, cpc, r, stats, output, aggregated, saveVars, configVars>>

\* Either receive reports a closed channel: return; defer wgCollector.Done().
CollectorReturn ==
    /\ exit = "none" /\ cpc = "select"
    /\ resultsClosed \/ errorsClosed
    /\ cpc' = "done"
    /\ wgCollector' = wgCollector - 1
    /\ UNCHANGED <<Concurrency, runVars, chanVars, workerVars, r, stats, output,
                   aggregated, saveVars, errorReceived, configVars>>

(***************************************************************************)
(* The program.                                                            *)
(***************************************************************************)
Producer ==
    \/ CheckTargetDatabase
    \/ StartWorkers
    \/ \E line \in Lines : ReadLine(line)
    \/ SendClone
    \/ \E rest \in Tails : ReadEOF(rest)
    \/ SendLast
    \/ CloseJobs
    \/ WaitWorkers
    \/ CloseResults
    \/ CloseErrors
    \/ WaitCollector
    \/ PrintSummary
    \/ MainExit

Worker(w) ==
    \/ WorkerRecv(w)
    \/ WorkerExit(w)
    \/ WorkerWriteFails(w)
    \/ WorkerWriteReturns(w)

Collector ==
    \/ \E w \in Workers : CollectorRecvResult(w)
    \/ CollectorSave
    \/ \E w \in Workers : CollectorRecvError(w)
    \/ CollectorReturn

Next ==
    \/ Producer
    \/ \E w \in Workers : Worker(w)
    \/ Collector

Spec == Init /\ [][Next]_vars

\* The Go scheduler never leaves the process idle while a goroutine can take a
\* step, and a read of the finite input returns: some enabled step is taken.
FairSpec == Spec /\ WF_vars(Next)

(***************************************************************************)
(* Stats.Save on its own: a list of outcomes is saved into stats in every  *)
(* order, next to the same list saved front to back into statsAlt.         *)
(***************************************************************************)
SaveResults == ResultsOf(0) \cup ResultsOf(1) \cup ResultsOf(2)
SaveDataPoints ==
    {[id |-> 0, statusCode |-> code, result |-> result] :
        code \in StatusCodeSet, result \in SaveResults}
SaveLists == UNION {[1..n -> SaveDataPoints] : n \in 0..MaxOutcomes}

RECURSIVE SaveAll(_, _)
SaveAll(s, dps) == IF dps = <<>> THEN s ELSE SaveAll(SaveStats(s, Head(dps)), Tail(dps))

Remove(seq, i) == SubSeq(seq, 1, i - 1) \o SubSeq(seq, i + 1, Len(seq))

SaveInit ==
    /\ Concurrency = 1
    /\ pc = "check"
    /\ exit = "none"
    /\ linesRead = 0
    /\ buffer = [i \in 1..bufferSize |-> 0]
    /\ bufferLen = 0
    /\ clone = NoSlice
    /\ jobsChan = <<>>
    /\ jobsClosed = FALSE
    /\ resultsClosed = FALSE
    /\ errorsClosed = FALSE
    /\ wpc = <<>>
    /\ job = <<>>
    /\ statsDataPoint = <<>>
    /\ wgWorker = 0
    /\ wgCollector = 0
    /\ cpc = "notStarted"
    /\ r = NoDataPoint
    /\ stats = NewStats
    /\ output = <<>>
    /\ checkFailed = FALSE
    /\ records = 0
    /\ made = 0
    /\ enqueued = <<>>
    /\ writeErrors = 0
    /\ returned = 0
    /\ aggregated = <<>>
    /\ dispatched = <<>>
    /\ errorReceived = FALSE
    /\ todo \in SaveLists
    /\ todoAlt = todo
    /\ statsAlt = NewStats
    /\ flags = [dbname |-> "mydb", concurrency |-> Concurrency]
    /\ newErr = ""

\* ci.stats.Save(&r) for any one of the outcomes not yet saved.
SaveAny ==
    \E i \in 1..Len(todo) :
        /\ stats' = SaveStats(stats, todo[i])
        /\ output' = SaveOutput(output, todo[i])
        /\ todo' = Remove(todo, i)
        /\ UNCHANGED <<Concurrency, runVars, chanVars, workerVars, wgCollector, cpc, r,
                       aggregated, todoAlt, statsAlt, errorReceived, configVars>>

\* ci.stats.Save(&r) for the first outcome of the list, into the second Stats.
SaveNextAlt ==
    /\ todoAlt # <<>>
    /\ statsAlt' = SaveStats(statsAlt, Head(todoAlt))
    /\ todoAlt' = Tail(todoAlt)
    /\ UNCHANGED <<Concurrency, runVars, chanVars, workerVars, collectorVars, todo, configVars>>

SaveNext == SaveAny \/ SaveNextAlt

SaveSpec == SaveInit /\ [][SaveNext]_vars

(***************************************************************************)
(* New and NewAppConfig, applied to every command line.                    *)
(***************************************************************************)
\* The values the -dbname/-db and -concurrency/-c flags are given.
FlagNames == {"", "mydb"}
FlagConcurrencies == (-3)..54

\* A validation that tests the lower limit of the concurrency only.
NewAppConfigNoUpperLimit(dbname, concurrency) ==
    IF dbname = "" THEN "missing dbname/db"
    ELSE IF concurrency < 1 THEN "conccurrency must be between 1 and 50"
    ELSE ""

\* The error NewAppConfig returns, "" for nil.
NewAppConfig(dbname, concurrency) ==
    IF dbname = "" THEN "missing dbname/db"
    ELSE IF concurrency < 1 \/ concurrency > 50 THEN "conccurrency must be between 1 and 50"
    ELSE ""

\* The error NewCloudantV1UsingExternalConfig may return.
ServiceErrors == {"", "service"}

ConfigInit ==
    /\ flags \in [dbname : FlagNames, concurrency : FlagConcurrencies]
    /\ newErr = ""
    /\ Concurrency = 0
    /\ pc = "new"
    /\ exit = "none"
    /\ linesRead = 0
    /\ buffer = [i \in 1..bufferSize |-> 0]
    /\ bufferLen = 0
    /\ clone = NoSlice
    /\ jobsChan = <<>>
    /\ jobsClosed = FALSE
    /\ resultsClosed = FALSE
    /\ errorsClosed = FALSE
    /\ wpc = <<>>
    /\ job = <<>>
    /\ statsDataPoint = <<>>
    /\ wgWorker = 0
    /\ wgCollector = 0
    /\ cpc = "notStarted"
    /\ r = NoDataPoint
    /\ stats = NewStats
    /\ output = <<>>
    /\ checkFailed = FALSE
    /\ records = 0
    /\ made = 0
    /\ enqueued = <<>>
    /\ writeErrors = 0
    /\ returned = 0
    /\ aggregated = <<>>
    /\ dispatched = <<>>
    /\ errorReceived = FALSE
    /\ todo = <<>>
    /\ todoAlt = <<>>
    /\ statsAlt = NewStats

\* main: cloudantImport, err := importer.New(); if err != nil { panic(err) }.
\* New returns NewAppConfig's error, or the service's, before it builds anything.
MainNew ==
    /\ exit = "none" /\ pc = "new"
    /\ \E serviceErr \in ServiceErrors :
         newErr' = IF NewAppConfig(flags.dbname, flags.concurrency) # ""
                   THEN NewAppConfig(flags.dbname, flags.concurrency)
                   ELSE serviceErr
    /\ IF newErr' # ""
       THEN pc' = "newFailed" /\ exit' = "panic" /\ UNCHANGED Concurrency
       ELSE pc' = "check" /\ Concurrency' = flags.concurrency /\ UNCHANGED exit
    /\ UNCHANGED <<checkFailed, linesRead, buffer, bufferLen, clone, records, made, enqueued,
                   chanVars, workerVars, collectorVars, saveVars, flags>>

\* main up to the start of the pipeline.
ConfigNext ==
    \/ MainNew
    \/ CheckTargetDatabase
    \/ StartWorkers
    \/ MainExit

ConfigSpec == ConfigInit /\ [][ConfigNext]_vars

(***************************************************************************)
(* Properties.                                                             *)
(***************************************************************************)
Ceil(k, b) == (k + b - 1) \div b
Last(seq) == seq[Len(seq)]
Writing == {w \in Workers : wpc[w] = "write"}
LogLines == {i \in DOMAIN output : output[i].kind = "log"}
Summaries == {i \in DOMAIN output : output[i].kind = "summary"}
CountOf(m, k) == IF k \in DOMAIN m THEN m[k] ELSE 0
Rejected(result, c) == Cardinality({i \in DOMAIN result : result[i] = c})
Failures(result) == Cardinality({i \in DOMAIN result : result[i] # "ok"})
RECURSIVE SumOf(_)
SumOf(m) ==
    IF DOMAIN m = {} THEN 0
    ELSE LET k == CHOOSE x \in DOMAIN m : TRUE
         IN m[k] + SumOf([x \in DOMAIN m \ {k} |-> m[x]])

\* C1  Batch sizing.  Once Run has closed the job queue on an input of K valid
\* records, it has enqueued exactly ceil(K/B) batches, every batch but the last
\* holds exactly B documents, the last holds K mod B (B when K is a positive
\* multiple of B), and no batch is empty.
C1_BatchSizing ==
    jobsClosed =>
        /\ Len(enqueued) = Ceil(records, bufferSize)
        /\ \A i \in 1..Len(enqueued) :
             /\ Len(enqueued[i]) > 0
             /\ i < Len(enqueued) => Len(enqueued[i]) = bufferSize
             /\ i = Len(enqueued) =>
                  Len(enqueued[i]) = IF records % bufferSize = 0 THEN bufferSize
                                     ELSE records % bufferSize

\* C2  Backpressure bound.  In every reachable state the number of workers that
\* have taken a batch from the job queue and whose write has not yet returned
\* is at most Config.Concurrency.
C2_BackpressureBound == Cardinality(Writing) <= Concurrency

C2_Witness == Concurrency = 2 /\ Cardinality(Writing) = 2

\* C3  Complete aggregation.  When no write call has failed and Run has passed
\* the wait for the collector, every enqueued batch has had its outcome received
\* by the collector exactly once, and the summary printed reports as "batches"
\* the number of batches enqueued and as "docs" the number of per-document
\* results the write calls returned.
C3_CompleteAggregation ==
    (writeErrors = 0 /\ pc \in {"summary", "returnedNil"}) =>
        /\ DOMAIN aggregated = 1..Len(enqueued)
        /\ \A id \in DOMAIN aggregated : aggregated[id] = 1
        /\ cpc = "done"
        /\ pc = "returnedNil" =>
             /\ output # <<>>
             /\ Last(output).kind = "summary"
             /\ Last(output).batches = Len(enqueued)
             /\ Last(output).docs = returned

C3_Witness ==
    /\ exit = "ok" /\ writeErrors = 0 /\ Concurrency = 2
    /\ Len(enqueued) = 3 /\ Last(output).batches = 3 /\ Last(output).docs = 5

\* C5  Pre-flight check.  When the existence check returns an error, Run returns
\* an error with no worker and no collector started; no line is read, no batch
\* is enqueued or written, and nothing is printed.
C5_PreflightFailure ==
    checkFailed =>
        /\ pc = "returnedErr"
        /\ exit # "ok"
        /\ wpc = <<>> /\ cpc = "notStarted" /\ wgWorker = 0 /\ wgCollector = 0
        /\ linesRead = 0 /\ enqueued = <<>> /\ jobsChan = <<>>
        /\ returned = 0 /\ writeErrors = 0
        /\ output = <<>>

C5_Witness == checkFailed /\ exit = "panic"

C6_SaveCommutes == todo = <<>> => stats = SaveAll(statsAlt, todoAlt)

\* Two different outcomes, saved last first.
C6_Witness ==
    /\ todo = <<>> /\ Len(todoAlt) = 2 /\ statsAlt = NewStats
    /\ todoAlt[1].statusCode # todoAlt[2].statusCode
    /\ NewLogLine(todoAlt[1]) # NewLogLine(todoAlt[2])
    /\ output = <<NewLogLine(todoAlt[2]), NewLogLine(todoAlt[1])>>
    /\ DOMAIN stats.StatusCodes = StatusCodeSet
    /\ DOMAIN stats.ErrorMessages = ErrorSet

\* C7  Drop policy.  Reading a line that is empty once its line ending is
\* stripped, or that does not decode, changes neither the working buffer nor
\* its length, makes no document, enqueues nothing, changes no counter of Stats
\* and prints nothing; Run goes on to read the next line.  No document exists
\* that did not come from a valid record.
C7_DropPolicy ==
    /\ [][\A line \in Lines :
            (ReadLine(line) /\ ~IsRecord(line)) =>
                /\ UNCHANGED <<buffer, bufferLen, made, clone, enqueued, jobsChan>>
                /\ UNCHANGED <<stats, output>>
                /\ pc' = "read"]_vars
    /\ [](made <= records)

\* Two lines dropped, then a record buffered.
C7_Witness == linesRead = 3 /\ made = 1 /\ records = 1 /\ bufferLen = 1 /\ buffer[1] = 1

\* C8  Per-document rejection is not fatal.  Saving an outcome adds, for every
\* error category, the number of documents rejected with it to that category's
\* counter, adds the length of the result list to DocsWritten and one to
\* BatchesWritten, prints one log line whose failure count is the number of
\* rejected documents and whose success count is the number of the others, and
\* leaves the process running where it was.
C8_RejectionNotFatal ==
    [][(cpc = "save" /\ cpc' = "select") =>
            /\ \A c \in ErrorSet :
                 CountOf(stats'.ErrorMessages, c)
                    = CountOf(stats.ErrorMessages, c) + Rejected(r.result, c)
            /\ DOMAIN stats'.ErrorMessages \subseteq ErrorSet
            /\ stats'.DocsWritten = stats.DocsWritten + Len(r.result)
            /\ stats'.BatchesWritten = stats.BatchesWritten + 1
            /\ output' = Append(output,
                 [kind |-> "log", statusCode |-> r.statusCode,
                  DocsSuccess |-> Len(r.result) - Failures(r.result),
                  DocsFailed |-> Failures(r.result)])
            /\ exit' = "none" /\ pc' = pc]_vars

\* A batch of one accepted and one rejected document, in a run that ends normally.
C8_Witness ==
    /\ exit = "ok" /\ writeErrors = 0
    /\ CountOf(stats.ErrorMessages, "conflict") = 1
    /\ \E i \in LogLines : output[i].DocsFailed = 1 /\ output[i].DocsSuccess = 1
    /\ stats.DocsWritten = returned /\ stats.DocsWritten > 1

\* C9  Empty input.  When the input held no valid record and the target exists,
\* no batch is enqueued, no write fails, the process never panics, what a
\* finished Run has printed is exactly the summary with zero batches, zero
\* documents and two empty histograms; and (under fair scheduling) the process
\* exits normally.
C9_EmptyInput ==
    /\ []((jobsClosed /\ records = 0) =>
            /\ enqueued = <<>>
            /\ writeErrors = 0 /\ exit # "panic"
            /\ LogLines = {}
            /\ pc = "returnedNil" =>
                 output = <<[kind |-> "summary", statusCodes |-> <<>>, errors |-> <<>>,
                             docs |-> 0, batches |-> 0]>>)
    /\ (jobsClosed /\ records = 0) ~> (exit = "ok")

\* Lines were read, none of them a record.
C9_Witness == exit = "ok" /\ records = 0 /\ linesRead = 2 /\ Len(output) = 1

\* C10  Output ordering.  Standard output holds one log line per outcome the
\* collector has saved; a summary is printed only by a Run that returns nil, and
\* then it is the last thing printed, printed once, after every log line.
C10_OutputOrdering ==
    /\ Cardinality(LogLines) = SumOf(aggregated) - (IF cpc = "save" THEN 1 ELSE 0)
    /\ \A i \in Summaries : i = Len(output) /\ pc = "returnedNil"
    /\ pc = "returnedNil" =>
         /\ Cardinality(Summaries) = 1
         /\ Cardinality(LogLines) = SumOf(aggregated)
         /\ \A i \in LogLines : i < Len(output)

C10_Witness ==
    /\ exit = "ok" /\ Cardinality(LogLines) = 3 /\ Summaries = {4}

\* C11: NewAppConfig fails, so that no importer is built and no pipeline
\* starts, when the database name is empty or the concurrency is below 1 or
\* above 50; with a name and a concurrency in 1..50 it succeeds, and the
\* importer that is then built runs that many workers.
ValidFlags == flags.dbname # "" /\ flags.concurrency \in 1..50
ConfigErrors == {"missing dbname/db", "conccurrency must be between 1 and 50"}
C11_ConfigValidation ==
    pc # "new" =>
        /\ ~ValidFlags =>
              /\ newErr \in ConfigErrors
              /\ pc = "newFailed" /\ exit = "panic"
              /\ Concurrency = 0 /\ wpc = <<>> /\ cpc = "notStarted"
        /\ ValidFlags =>
              /\ newErr \notin ConfigErrors
              /\ newErr = "" => Concurrency = flags.concurrency
              /\ pc = "read" => Len(wpc) = flags.concurrency
C11_Witness == flags = [dbname |-> "mydb", concurrency |-> 51] /\ pc = "newFailed"

RECURSIVE Flatten(_)
Flatten(ss) == IF ss = <<>> THEN <<>> ELSE Head(ss) \o Flatten(Tail(ss))
AfterCloseJobs ==
    {"waitWorkers", "closeResults", "closeErrors", "waitCollector", "summary", "returnedNil"}
AfterWaitCollector == {"summary", "returnedNil"}

\* The part of the shutdown order that Run's own steps make: the job queue is
\* closed after the final batch is enqueued, the result and error channels are
\* closed after every worker has exited, the results channel first.
RunShutdownOrder ==
    /\ jobsClosed =>
          /\ pc \in AfterCloseJobs /\ clone = NoSlice
          /\ Len(Flatten(enqueued)) = made
    /\ resultsClosed =>
          /\ jobsClosed /\ jobsChan = <<>>
          /\ wgWorker = 0 /\ \A w \in Workers : wpc[w] = "done"
    /\ errorsClosed => resultsClosed

\* C12 as stated: in a run that terminates normally the final batch is
\* enqueued, then the job queue is closed, then all workers have exited, then
\* the result and error channels are closed, then the collector has exited,
\* then the summary is emitted; no step before the one ahead of it is complete.
C12_ShutdownOrder ==
    /\ RunShutdownOrder
    /\ cpc = "done" => resultsClosed /\ errorsClosed
    /\ Summaries # {} => cpc = "done"

\* C12 amended: the same order, except that the collector exits once the
\* results channel is closed, which may be before the error channel is closed;
\* Run goes past its wait for the collector, and emits the summary, only after
\* both channels are closed and the collector has exited.
C12_ShutdownOrderAmended ==
    /\ RunShutdownOrder
    /\ cpc = "done" => resultsClosed
    /\ pc \in AfterWaitCollector => errorsClosed /\ cpc = "done" /\ wgCollector = 0
    /\ Summaries # {} => pc = "returnedNil"
C12_Witness ==
    exit = "ok" /\ Len(enqueued) = Ceil(MaxLines, bufferSize) /\ Summaries # {}

C14_NoAliasing ==
    /\ \A i \in DOMAIN jobsChan : ~jobsChan[i].alias
    /\ \A w \in Workers : ~job[w].alias

\* C15: jobsChan never holds more than Concurrency slices; a producer that
\* has a slice to hand over while the channel is full stays at the send, and
\* reads no further line, until a worker has taken a slice from the channel.
AtHandoff == pc \in {"sendClone", "sendLast"}
C15_QueueBound ==
    /\ [](Len(jobsChan) <= Concurrency)
    /\ [][(AtHandoff /\ Len(jobsChan) = Concurrency) =>
            /\ UNCHANGED <<pc, linesRead, records, made, buffer, bufferLen, clone, enqueued>>
            /\ jobsChan' # jobsChan =>
                  /\ jobsChan' = Tail(jobsChan)
                  /\ \E w \in Workers : wpc[w] = "recv" /\ wpc'[w] = "write"]_vars
C15_Witness ==
    /\ pc = "sendClone" /\ Len(jobsChan) = Concurrency
    /\ linesRead < MaxLines

\* C16: the slices are enqueued in input order with their documents in input
\* order: what has been enqueued, end to end, is a prefix of the valid records
\* in input order, and all of them once jobsChan is closed.  (The valid
\* records of the input are numbered 1, 2, ... in input order.)
C16_InputOrder ==
    /\ Flatten(enqueued) = [i \in 1..Len(Flatten(enqueued)) |-> i]
    /\ jobsClosed => Flatten(enqueued) = [i \in 1..records |-> i]

\* C18: once jobsChan is closed every valid record of the input, a final one
\* that end of stream follows without a newline included, is in exactly one
\* enqueued slice, exactly once.
Places(rec) ==
    {p \in (DOMAIN enqueued) \X (1..bufferSize) :
        p[2] \in DOMAIN enqueued[p[1]] /\ enqueued[p[1]][p[2]] = rec}
C18_NoLostRecord ==
    jobsClosed => \A rec \in 1..records : Cardinality(Places(rec)) = 1

\* C17: ci.stats is changed by the collector only, one Save at a time: every
\* step that changes it is the collector finishing the Save of the outcome it
\* holds, and in that step neither Run nor any worker moves.
C17_SingleWriter ==
    [][stats' # stats =>
          /\ cpc = "save" /\ cpc' = "select"
          /\ stats' = SaveStats(stats, r)
          /\ pc' = pc /\ wpc' = wpc]_vars
C17_Witness ==
    /\ cpc = "save" /\ stats.BatchesWritten >= 1
    /\ \E w \in Workers : wpc[w] = "sendResult"

\* C19: on a finite input, with a client whose every call returns, every run
\* ends, either with the summary printed or aborted by a panic: Run is never
\* left for ever at a send on a full jobsChan or in a wait, nor a worker at a
\* send on resultsChan or errorsChan.
SummaryPrinted == exit = "ok" /\ output # <<>> /\ Last(output).kind = "summary"
Aborted == exit = "panic"
C19_Termination == <>(SummaryPrinted \/ Aborted)
C19_Witness == Aborted /\ errorReceived /\ AtHandoff /\ Len(jobsChan) = Concurrency

\* C20: every enqueued slice is received by exactly one worker, which issues
\* the one bulk write for it: a slice is either still in jobsChan or has been
\* received once, no two workers hold the same slice, and in a run that ends
\* without a fatal error every slice was received once and its one outcome
\* reached the collector.
InChannel(id) == Cardinality({i \in DOMAIN jobsChan : jobsChan[i].id = id})
Holding(id) == {w \in Workers : job[w].id = id}
C20_ExactlyOneDispatch ==
    /\ DOMAIN dispatched \subseteq 1..Len(enqueued)
    /\ \A id \in 1..Len(enqueued) :
          /\ CountOf(dispatched, id) + InChannel(id) = 1
          /\ Cardinality(Holding(id)) <= CountOf(dispatched, id)
          /\ CountOf(aggregated, id) <= CountOf(dispatched, id)
          /\ exit = "ok" => CountOf(dispatched, id) = 1 /\ CountOf(aggregated, id) = 1
    /\ writeErrors + SumOf(aggregated) <= SumOf(dispatched)
C20_Witness ==
    /\ exit = "ok" /\ Concurrency = MaxConcurrency
    /\ DOMAIN dispatched = 1..Ceil(MaxLines, bufferSize)

\* C21: after any sequence of Saves the status-code counts add up to
\* BatchesWritten, and DocsWritten is the number of successful per-document
\* results saved plus the sum of the error-category counts.  The successful
\* results are counted twice over: from the log lines the Saves printed, and,
\* once a whole list has been saved, from the list itself.
RECURSIVE LoggedSuccesses(_)
LoggedSuccesses(out) ==
    IF out = <<>> THEN 0
    ELSE (IF Head(out).kind = "log" THEN Head(out).DocsSuccess ELSE 0)
         + LoggedSuccesses(Tail(out))
RECURSIVE Successes(_)
Successes(dps) ==
    IF dps = <<>> THEN 0
    ELSE Cardinality({i \in DOMAIN Head(dps).result : Head(dps).result[i] = "ok"})
         + Successes(Tail(dps))
C21_StatsConsistency ==
    /\ SumOf(stats.StatusCodes) = stats.BatchesWritten
    /\ stats.DocsWritten = LoggedSuccesses(output) + SumOf(stats.ErrorMessages)
    /\ (todo = <<>> /\ statsAlt = NewStats) =>
          /\ stats.BatchesWritten = Len(todoAlt)
          /\ stats.DocsWritten = Successes(todoAlt) + SumOf(stats.ErrorMessages)
C21_Witness ==
    /\ todo = <<>> /\ statsAlt = NewStats /\ stats.BatchesWritten = MaxOutcomes
    /\ Cardinality(DOMAIN stats.StatusCodes) = 2
    /\ Cardinality(DOMAIN stats.ErrorMessages) = 2
    /\ stats.DocsWritten > SumOf(stats.ErrorMessages)

\* C22: nothing is sent on a closed channel and no channel is closed twice:
\* once jobsChan is closed Run is past its sends and enqueues nothing more,
\* Run never stands before a close of a channel that is closed already, and
\* while resultsChan or errorsChan is closed every worker has returned, so
\* none is at a send or can come to one.
CanStillSend == {w \in Workers : wpc[w] # "done"}
C22_CloseSafety ==
    /\ [](jobsClosed => pc \notin {"read", "sendClone", "sendLast", "closeJobs"})
    /\ [](resultsClosed => pc # "closeResults")
    /\ [](errorsClosed => pc # "closeErrors")
    /\ []((resultsClosed \/ errorsClosed) => CanStillSend = {})
    /\ [][jobsClosed => enqueued' = enqueued /\ Len(jobsChan') <= Len(jobsChan)]_vars
    /\ [][/\ jobsClosed => jobsClosed'
          /\ resultsClosed => resultsClosed'
          /\ errorsClosed => errorsClosed']_vars
C22_Witness ==
    /\ pc = "waitCollector" /\ cpc = "select" /\ resultsClosed /\ errorsClosed
    /\ Concurrency = MaxConcurrency /\ Len(enqueued) = Ceil(MaxLines, bufferSize)

\* C23: the sealed slices whose outcome the collector has not yet received
\* are those waiting in jobsChan (at most Concurrency), those held by a worker
\* (at most one each, Concurrency workers) and the one Run holds at a send;
\* so there are never more than 2 * Concurrency + 1 of them.
Sealed == 1..(Len(enqueued) + (IF AtHandoff THEN 1 ELSE 0))
Outstanding == {id \in Sealed : CountOf(aggregated, id) = 0}
HeldByWorker == {w \in Workers : wpc[w] \in {"write", "sendResult", "sendErr"}}
C23_BoundedOutstanding ==
    /\ Cardinality(Outstanding) =
          Len(jobsChan) + Cardinality(HeldByWorker) + (IF AtHandoff THEN 1 ELSE 0)
    /\ Len(jobsChan) <= Concurrency
    /\ Cardinality(HeldByWorker) <= Concurrency
    /\ Cardinality(Outstanding) <= 2 * Concurrency + 1
C23_Witness ==
    /\ Cardinality(Outstanding) = 2 * Concurrency + 1
    /\ AtHandoff /\ Len(jobsChan) = Concurrency /\ Cardinality(HeldByWorker) = Concurrency

\* C24: a sealed slice holds the documents that were in the working buffer
\* when it was sealed, and keeps them: whatever Run appends to the buffer or
\* resets afterwards, a slice that is queued or that a worker is submitting
\* shows the documents it was enqueued with.
InFlight ==
    {jobsChan[i] : i \in DOMAIN jobsChan} \cup {job[w] : w \in {v \in Workers : job[v].id # 0}}
C24_StableContents ==
    /\ AtHandoff => clone.len = bufferLen /\ Contents(clone) = SubSeq(buffer, 1, bufferLen)
    /\ \A s \in InFlight :
          /\ s.id \in DOMAIN enqueued
          /\ Contents(s) = enqueued[s.id]
          /\ Len(Contents(s)) = s.len
\* A queued clone whose documents Run has since overwritten in its buffer.
C24_Witness ==
    \E i \in DOMAIN jobsChan :
        /\ ~jobsChan[i].alias /\ bufferLen >= 1
        /\ buffer[1] # Contents(jobsChan[i])[1]

====
